---------------------------- MODULE Spec2Model ----------------------------
(***************************************************************************)
(* prometheus-ecs-sd: the generic TTL cache (internal/cache/cache.go), the *)
(* caching decorator around the ECS client and the discovery engine.       *)
(*                                                                         *)
(* Time is the wall clock read by time.Now().UnixNano(), counted in units  *)
(* of five minutes.  Strings are sequences of one-character strings, so    *)
(* that slicing, concatenation and the label normaliser are computed.     *)
(***************************************************************************)
EXTENDS Integers, Sequences, FiniteSets, TLC

(***************************************************************************)
(* Bounds of the model.                                                    *)
(***************************************************************************)
\* the clock stops advancing here
MaxTime == 3
\* Set is called with a duration in -1..MaxTTL
MaxTTL == 2
\* the decorator's callers make this many calls
MaxCalls == 2
\* the clock of the engine stops advancing here
MaxEngTime == 2
\* Run makes this many refreshes
MaxRefreshes == 2
\* this many remote operations fail at a time under the engine
MaxDown == 1
\* tagsToLabelSet is called with at most this many tags
MaxTags == 2

(***************************************************************************)
(* Values.                                                                 *)
(***************************************************************************)
\* Go's untyped nil: what Get returns for "no value"
Nil == [kind |-> "nil"]

\* the keys and payloads the cache's direct callers use
Keys == {<<"k1">>, <<"k2">>}
Values == {[kind |-> "val", id |-> 1], [kind |-> "val", id |-> 2]}

\* the durations a caller passes to Set
Durations == (0 - 1)..MaxTTL

\* what New is configured with: WithJanitor(2) or none, WithDefaultExpiration(1) or none
JanitorIntervals == {0 - 1, 2}
DefaultExpirations == {0 - 1, 1}

VARIABLES
    \* ---- internal/cache: Cache
    now,                \* time.Now().UnixNano()
    items,              \* Cache.items: key -> item{data, expires}
    returnStale,        \* Cache.returnStale
    janitorInterval,    \* Cache.janitorInterval (-1: no janitor)
    defaultExpiration,  \* Cache.defaultExpiration
    \* ---- the janitor goroutine and its ticker
    jpc,                \* "none" | "select" | "range" | "delete" | "stopped"
    jNow,               \* janitor's local now
    jKey,               \* key whose expired item the Range callback holds
    tickerC,            \* a tick is waiting in ticker.C
    nextTick,           \* when the ticker fires next
    \* ---- Close
    closePc,            \* "idle" | "send" | "sent" | "closed"
    \* ---- what happened to each key
    setLog,             \* per key: the last Set and what removed its entry
    sweepDone,          \* janitor's now of the last sweep that ran to its end
    \* ---- the ECS API behind the decorator, and the decorator's callers
    remote,             \* ECS: [ver: which contents it has, down: the operations failing]
    ncalls,             \* decorator calls made so far
    \* ---- discovery.Run
    epc,                \* "off" | "start" | "send" | "select" | "returned" | "panicked"
    refreshes,          \* how many times Run has called refresh
    cancelled,          \* ctx.Done() is closed
    tgs,                \* the batch refresh returned, to be sent on ch
    tick,               \* the current tick: refresh's failed calls, error and
                        \* panic, whether the error was logged, whether the batch
                        \* was received
    eTickerC,           \* a tick is waiting in Run's ticker.C
    draining,           \* the consumer of ch is still receiving
    \* ---- tagsToLabelSet called on its own
    tagsIn,             \* the tags it is called with
    labelsOut           \* whether it was called, and the label set it returned

cacheVars == <<now, items, returnStale, janitorInterval, defaultExpiration,
               jpc, jNow, jKey, tickerC, nextTick, closePc, setLog, sweepDone>>

decVars == <<remote, ncalls>>

engVars == <<epc, refreshes, cancelled, tgs, tick, eTickerC, draining>>

fnVars == <<tagsIn, labelsOut>>

vars == <<cacheVars, decVars, engVars, fnVars>>

(***************************************************************************)
(* internal/cache/cache.go                                                 *)
(***************************************************************************)
\* item.expires > 0 && t > item.expires
Expired(item, t) == item.expires > 0 /\ t > item.expires

\* Get as it would be if it served expired entries whatever the flag says
GetAlwaysStale(its, t, stale, key) ==
    IF key \notin DOMAIN its THEN <<Nil, FALSE>>
    ELSE IF Expired(its[key], t) THEN <<its[key].data, FALSE>>
         ELSE <<its[key].data, TRUE>>

\* Cache.Get: <<value, ok>>
Get(its, t, stale, key) ==
    IF key \notin DOMAIN its THEN <<Nil, FALSE>>
    ELSE IF Expired(its[key], t)
         THEN IF stale THEN <<its[key].data, FALSE>> ELSE <<Nil, FALSE>>
         ELSE <<its[key].data, TRUE>>

\* the expiry Set computes: now + duration when duration > 0, else 0
SetExpires(t, duration) == IF duration > 0 THEN t + duration ELSE 0

\* Cache.Set's store
Store(its, t, key, value, duration) ==
    [k \in DOMAIN its \cup {key} |->
        IF k = key THEN [data |-> value, expires |-> SetExpires(t, duration)]
        ELSE its[k]]

\* sync.Map.Delete
Remove(its, key) == [k \in DOMAIN its \ {key} |-> its[k]]

\* no refresh made yet
NoTick == [log |-> <<>>, err |-> FALSE, panic |-> "", logged |-> FALSE, sent |-> FALSE]

\* discovery.Run is not running
EngineOff ==
    /\ epc = "off"
    /\ refreshes = 0
    /\ cancelled = FALSE
    /\ tgs = <<>>
    /\ tick = NoTick
    /\ eTickerC = FALSE
    /\ draining = TRUE

\* tagsToLabelSet is not called on its own
NoTagsCall ==
    /\ tagsIn = <<>>
    /\ labelsOut = [called |-> FALSE, labels |-> <<>>]

NoLog == [st |-> "unset", v |-> Nil, d |-> 0, at |-> 0]

\* setLog with the record of key replaced (keys outside the log are not followed)
LogPut(key, rec) ==
    IF key \in DOMAIN setLog THEN [setLog EXCEPT ![key] = rec] ELSE setLog

LogSet(key, value, duration) ==
    LogPut(key, [st |-> "live", v |-> value, d |-> duration, at |-> now])

\* the entry of key is gone: by "deleted", "closed" or "swept"
LogRemoved(log, how) ==
    IF log.st = "live" THEN [st |-> how, v |-> Nil, d |-> log.d, at |-> 0] ELSE log

\* New(opts...): the options are applied, the janitor started when configured
CacheInit(stale, interval, dflt, keys) ==
    /\ items = <<>>
    /\ returnStale = stale
    /\ janitorInterval = interval
    /\ defaultExpiration = dflt
    /\ jpc = IF interval > 0 THEN "select" ELSE "none"
    /\ jNow = 0
    /\ jKey = <<>>
    /\ tickerC = FALSE
    /\ nextTick = IF interval > 0 THEN interval ELSE 0
    /\ closePc = "idle"
    /\ setLog = [k \in keys |-> NoLog]
    /\ sweepDone = 0

\* Cache.Set(key, value, duration)
Set(key, value, duration) ==
    /\ items' = Store(items, now, key, value, duration)
    /\ setLog' = LogSet(key, value, duration)
    /\ UNCHANGED <<now, returnStale, janitorInterval, defaultExpiration, jpc,
                   jNow, jKey, tickerC, nextTick, closePc, sweepDone>>
    /\ UNCHANGED <<decVars, engVars, fnVars>>

\* Cache.SetDefault(key, value)
SetDefault(key, value) == Set(key, value, defaultExpiration)

\* Cache.Delete(key)
Delete(key) ==
    /\ items' = Remove(items, key)
    /\ setLog' = LogPut(key, LogRemoved(setLog[key], "deleted"))
    /\ UNCHANGED <<now, returnStale, janitorInterval, defaultExpiration, jpc,
                   jNow, jKey, tickerC, nextTick, closePc, sweepDone>>
    /\ UNCHANGED <<decVars, engVars, fnVars>>

\* Cache.Close, up to its send on cache.close: the caller blocks in the send
CloseCall ==
    /\ closePc = "idle"
    /\ closePc' = "send"
    /\ UNCHANGED <<now, items, returnStale, janitorInterval, defaultExpiration,
                   jpc, jNow, jKey, tickerC, nextTick, setLog, sweepDone>>
    /\ UNCHANGED <<decVars, engVars, fnVars>>

\* janitor: case <-c.close: return (with the deferred ticker.Stop); the
\* channel is unbuffered, so this is also the moment Close's send completes
JanitorClose ==
    /\ jpc = "select"
    /\ closePc = "send"
    /\ jpc' = "stopped"
    /\ closePc' = "sent"
    /\ tickerC' = FALSE
    /\ UNCHANGED <<now, items, returnStale, janitorInterval, defaultExpiration,
                   jNow, jKey, nextTick, setLog, sweepDone>>
    /\ UNCHANGED <<decVars, engVars, fnVars>>

\* Cache.Close after the send: cache.items = sync.Map{}
CloseReset ==
    /\ closePc = "sent"
    /\ closePc' = "closed"
    /\ items' = <<>>
    /\ setLog' = [k \in DOMAIN setLog |-> LogRemoved(setLog[k], "closed")]
    /\ UNCHANGED <<now, returnStale, janitorInterval, defaultExpiration, jpc,
                   jNow, jKey, tickerC, nextTick, sweepDone>>
    /\ UNCHANGED <<decVars, engVars, fnVars>>

\* the clock advances; a running ticker whose period has passed puts a tick
\* in its one-slot channel
TickTo(limit) ==
    /\ now < limit
    /\ now' = now + 1
    /\ IF jpc \in {"select", "range", "delete"} /\ now + 1 >= nextTick
       THEN /\ tickerC' = TRUE
            /\ nextTick' = nextTick + janitorInterval
       ELSE UNCHANGED <<tickerC, nextTick>>
    /\ UNCHANGED <<items, returnStale, janitorInterval, defaultExpiration, jpc,
                   jNow, jKey, closePc, setLog, sweepDone>>
    /\ UNCHANGED <<decVars, engVars, fnVars>>

\* janitor: case <-ticker.C: now := time.Now().UnixNano(); c.items.Range(...)
JanitorWake ==
    /\ jpc = "select"
    /\ tickerC
    /\ tickerC' = FALSE
    /\ jNow' = now
    /\ jpc' = "range"
    /\ UNCHANGED <<now, items, returnStale, janitorInterval, defaultExpiration,
                   jKey, nextTick, closePc, setLog, sweepDone>>
    /\ UNCHANGED <<decVars, engVars, fnVars>>

\* janitor, in Range: the callback is handed a key with the item loaded for
\* it and finds it expired.  (An item that is not expired is passed over; no
\* key is visited twice, and an entry stored during the sweep is not expired
\* at the janitor's now.)
JanitorLoad(key) ==
    /\ jpc = "range"
    /\ key \in DOMAIN items
    /\ Expired(items[key], jNow)
    /\ jKey' = key
    /\ jpc' = "delete"
    /\ UNCHANGED <<now, items, returnStale, janitorInterval, defaultExpiration,
                   jNow, tickerC, nextTick, closePc, setLog, sweepDone>>
    /\ UNCHANGED <<decVars, engVars, fnVars>>

\* janitor, in the callback: c.items.Delete(key), whatever the key holds now
JanitorDelete ==
    /\ jpc = "delete"
    /\ items' = Remove(items, jKey)
    /\ setLog' = IF jKey \in DOMAIN items /\ jKey \in DOMAIN setLog
                 THEN LogPut(jKey, LogRemoved(setLog[jKey], "swept"))
                 ELSE setLog
    /\ jKey' = <<>>
    /\ jpc' = "range"
    /\ UNCHANGED <<now, returnStale, janitorInterval, defaultExpiration, jNow,
                   tickerC, nextTick, closePc, sweepDone>>
    /\ UNCHANGED <<decVars, engVars, fnVars>>

\* the sweep as it would be if the Range callback could stop the iteration
JanitorRangeStops ==
    /\ jpc = "range"
    /\ jpc' = "select"
    /\ jNow' = 0
    /\ sweepDone' = IF DOMAIN setLog = {} THEN sweepDone ELSE jNow
    /\ UNCHANGED <<now, items, returnStale, janitorInterval, defaultExpiration,
                   jKey, tickerC, nextTick, closePc, setLog>>
    /\ UNCHANGED <<decVars, engVars, fnVars>>

\* a sweep ran to its end (followed where the keys are)
LogSweep(t) == IF DOMAIN setLog = {} THEN sweepDone ELSE t

\* janitor: Range returns once every entry has been visited, and the
\* janitor's now goes out of scope
JanitorRangeEnd ==
    /\ jpc = "range"
    /\ \A k \in DOMAIN items : ~Expired(items[k], jNow)
    /\ jpc' = "select"
    /\ jNow' = 0
    /\ sweepDone' = LogSweep(jNow)
    /\ UNCHANGED <<now, items, returnStale, janitorInterval, defaultExpiration,
                   jKey, tickerC, nextTick, closePc, setLog>>
    /\ UNCHANGED <<decVars, engVars, fnVars>>

Janitor ==
    \/ JanitorWake
    \/ \E k \in DOMAIN items : JanitorLoad(k)
    \/ JanitorDelete
    \/ JanitorRangeEnd

(***************************************************************************)
(* The cache under its direct callers.                                     *)
(***************************************************************************)
Tick == TickTo(MaxTime)

Init ==
    \E stale \in BOOLEAN, interval \in JanitorIntervals, dflt \in DefaultExpirations :
        /\ now = 0
        /\ CacheInit(stale, interval, dflt, Keys)
        /\ remote = [ver |-> 1, down |-> {}]
        /\ ncalls = 0
        /\ EngineOff
        /\ NoTagsCall

Next ==
    \/ \E k \in Keys, v \in Values, d \in Durations : Set(k, v, d)
    \/ \E k \in Keys, v \in Values : SetDefault(k, v)
    \/ \E k \in Keys : Delete(k)
    \/ CloseCall
    \/ JanitorClose
    \/ CloseReset
    \/ Tick
    \/ Janitor

Spec == Init /\ [][Next]_vars


(***************************************************************************)
(* Strings.                                                                *)
(***************************************************************************)
\* strings.LastIndex(s, "/"), counted from 1; 0 when there is none
LastSlash(s) ==
    IF \E i \in 1..Len(s) : s[i] = "/"
    THEN CHOOSE i \in 1..Len(s) :
            s[i] = "/" /\ \A j \in (i + 1)..Len(s) : s[j] # "/"
    ELSE 0

\* arn[strings.LastIndex(arn, "/")+1:]
LastSegment(arn) == SubSeq(arn, LastSlash(arn) + 1, Len(arn))

(***************************************************************************)
(* The ECS API: what the account holds, in three versions, and which of    *)
(* its operations are failing.                                             *)
(***************************************************************************)
\* a typed nil pointer: a nil *ecs.XxxOutput or a nil *string
NilPtr == [kind |-> "nilptr"]

\* aws.String(s)
StrPtr(s) == [kind |-> "str", s |-> s]

ClusterX == <<"c", "/", "x">>
ClusterY == <<"c", "/", "y">>
ServiceA == <<"s", "/", "x", "/", "a">>
ServiceB == <<"s", "/", "y", "/", "b">>
\* an ARN of the kind without the cluster's name in it
ServiceA2 == <<"s", "/", "a">>
Task1 == <<"t", "/", "1">>
Task2 == <<"t", "/", "2">>
Task3 == <<"t", "/", "3">>

ClusterArns == {ClusterX, ClusterY}
ServiceArns == {ServiceA, ServiceB}
TaskArns == {Task1, Task2, Task3}
Versions == {1, 2, 3}
\* version 4 has two service ARNs that end in the same segment
SourceVersions == Versions \cup {4}
DecVersions == {1, 2}

\* types.NetworkInterface and types.Container, by what refresh reads of them
Interface(ip) == [ip |-> ip]
Container(nis) == [nis |-> nis]
TaskOf(arn, containers) == [kind |-> "task", arn |-> arn, containers |-> containers]

\* the clusters of the account
WorldClusters(ver) == IF ver = 2 THEN <<ClusterX>> ELSE <<ClusterX, ClusterY>>

\* the services of a cluster
WorldServices(ver, cluster) ==
    IF cluster = ClusterX THEN (IF ver = 4 THEN <<ServiceA, ServiceA2>> ELSE <<ServiceA>>)
    ELSE IF cluster = ClusterY THEN <<ServiceB>>
    ELSE <<>>

\* the running tasks of a service
WorldTasks(ver, service) ==
    IF service = ServiceA THEN (IF ver = 2 THEN <<Task1>> ELSE <<Task1, Task2>>)
    ELSE IF service = ServiceB THEN <<Task3>>
    ELSE <<>>

\* a task: version 1 has an addressed task, one without interfaces and an
\* addressed one; version 2 readdresses them; version 3 has a task whose
\* interface is on its second container and one whose interface carries no
\* private IPv4 address
WorldTask(ver, arn) ==
    IF arn = Task1
    THEN TaskOf(arn, <<Container(<<Interface(StrPtr(IF ver = 2 THEN <<"7">> ELSE <<"1">>))>>)>>)
    ELSE IF arn = Task2
    THEN (IF ver = 3
          THEN TaskOf(arn, <<Container(<<>>), Container(<<Interface(StrPtr(<<"2">>))>>)>>)
          ELSE TaskOf(arn, <<Container(<<>>)>>))
    ELSE (IF ver = 3
          THEN TaskOf(arn, <<Container(<<Interface(NilPtr)>>)>>)
          ELSE TaskOf(arn, <<Container(<<Interface(StrPtr(<<"3">>))>>)>>))

\* the tags of a service
WorldTags(ver, service) ==
    IF service = ServiceA
    THEN (IF ver = 2
          THEN <<[key |-> <<"p", ".", "S">>, value |-> <<"1">>],
                 [key |-> <<"e">>, value |-> <<"2">>]>>
          ELSE <<[key |-> <<"p", ".", "S">>, value |-> <<"0">>]>>)
    ELSE <<>>

\* the cache keys of the decorator, which also name the remote operations
KeyListClusters == <<"ListClusters">>
KeyListServices(cluster) == <<"ListServices-">> \o cluster
KeyListTasks(service) == <<"ListTasks-">> \o service
KeyDescribeTasks(task) == <<"DescribeTasks-">> \o task
KeyListTags(arn) == <<"ListTagsForResource-">> \o arn
OpDescribeTasks == <<"DescribeTasks">>

RemoteOps ==
    {KeyListClusters, OpDescribeTasks}
        \cup {KeyListServices(c) : c \in ClusterArns}
        \cup {KeyListTasks(x) : x \in ServiceArns}
        \cup {KeyListTags(x) : x \in ServiceArns}

\* the SDK's answer: (output, nil) or (nil, err)
Answer(rem, op, out) ==
    IF op \in rem.down THEN [out |-> NilPtr, err |-> TRUE]
    ELSE [out |-> out, err |-> FALSE]

RemoteListClusters(rem) ==
    Answer(rem, KeyListClusters, [kind |-> "clusters", arns |-> WorldClusters(rem.ver)])

RemoteListServices(rem, cluster) ==
    Answer(rem, KeyListServices(cluster),
           [kind |-> "services", arns |-> WorldServices(rem.ver, cluster)])

RemoteListTasks(rem, service) ==
    Answer(rem, KeyListTasks(service),
           [kind |-> "tasklist", arns |-> WorldTasks(rem.ver, service)])

RemoteDescribeTasks(rem, arns) ==
    Answer(rem, OpDescribeTasks,
           [kind |-> "tasks",
            tasks |-> [i \in 1..Len(arns) |-> WorldTask(rem.ver, arns[i])]])

RemoteListTags(rem, arn) ==
    Answer(rem, KeyListTags(arn), [kind |-> "tags", tags |-> WorldTags(rem.ver, arn)])

(***************************************************************************)
(* The caching decorator, ecsClientCache.  Each operation is computed from *)
(* the cache, the clock and the ECS API, and yields the cache it leaves,   *)
(* what it returns and the remote calls it made.                           *)
(***************************************************************************)
\* time.Hour, 5*time.Minute, 15*time.Minute and 30*time.Minute
TTLClusters == 12
TTLServices == 1
DecoratorDefaultExpiration == 3
DecoratorJanitorInterval == 6

Result(its, out, err, calls) == [items |-> its, out |-> out, err |-> err, calls |-> calls]

RemoteCall(op, arg) == [op |-> op, arg |-> arg]

\* ecsClientCache.ListClusters
ListClusters(its, t, rem) ==
    LET cached == Get(its, t, returnStale, KeyListClusters)
        r == RemoteListClusters(rem)
        made == <<RemoteCall("ListClusters", <<>>)>>
    IN  IF cached[2] THEN Result(its, cached[1], FALSE, <<>>)
        ELSE IF r.err /\ cached[1] # Nil THEN Result(its, cached[1], FALSE, made)
        ELSE Result(Store(its, t, KeyListClusters, r.out, TTLClusters), r.out, r.err, made)

\* ListServices as it would be without the stale fallback
ListServicesNoFallback(its, t, rem, cluster) ==
    LET cached == Get(its, t, returnStale, KeyListServices(cluster))
        r == RemoteListServices(rem, cluster)
        made == <<RemoteCall("ListServices", cluster)>>
    IN  IF cached[2] THEN Result(its, cached[1], FALSE, <<>>)
        ELSE IF r.err THEN Result(its, r.out, TRUE, made)
        ELSE Result(Store(its, t, KeyListServices(cluster), r.out, TTLServices),
                    r.out, FALSE, made)

\* ecsClientCache.ListServices
ListServices(its, t, rem, cluster) ==
    LET cached == Get(its, t, returnStale, KeyListServices(cluster))
        r == RemoteListServices(rem, cluster)
        made == <<RemoteCall("ListServices", cluster)>>
    IN  IF cached[2] THEN Result(its, cached[1], FALSE, <<>>)
        ELSE IF r.err
             THEN IF cached[1] # Nil THEN Result(its, cached[1], FALSE, made)
                  ELSE Result(its, r.out, TRUE, made)
        ELSE Result(Store(its, t, KeyListServices(cluster), r.out, TTLServices),
                    r.out, FALSE, made)

\* ecsClientCache.ListTasks: passed through
ListTasks(its, t, rem, service) ==
    LET r == RemoteListTasks(rem, service)
    IN  Result(its, r.out, r.err, <<RemoteCall("ListTasks", service)>>)

\* &task in "for _, task := range response.Tasks", were the loop variable
\* one variable for the whole loop: it ends holding the last task
LoopVarShared(tasks, i) == [kind |-> "taskptr", task |-> tasks[Len(tasks)]]

\* &task in "for _, task := range response.Tasks": each iteration has its
\* own variable (Go 1.22, the toolchain of the Dockerfile)
LoopVar(tasks, i) == [kind |-> "taskptr", task |-> tasks[i]]

\* the loop that caches each returned task under its own ARN
RECURSIVE CacheTasks(_, _, _, _)
CacheTasks(its, t, tasks, i) ==
    IF i > Len(tasks) THEN its
    ELSE CacheTasks(Store(its, t, KeyDescribeTasks(tasks[i].arn), LoopVar(tasks, i),
                          defaultExpiration),
                    t, tasks, i + 1)

\* DescribeTasks as it would be without "params.Tasks = uncachedTasks"
DescribeTasksAsksAll(its, t, rem, params) ==
    LET asked == IF params = NilPtr THEN <<>> ELSE params.tasks
        IsCached(a) == Get(its, t, returnStale, KeyDescribeTasks(a))[2]
        IsUncached(a) == ~IsCached(a)
        hits == SelectSeq(asked, IsCached)
        cachedTasks == [i \in 1..Len(hits) |->
                          Get(its, t, returnStale, KeyDescribeTasks(hits[i]))[1].task]
        uncachedTasks == SelectSeq(asked, IsUncached)
        r == RemoteDescribeTasks(rem, asked)
        made == <<RemoteCall("DescribeTasks", asked)>>
    IN  IF Len(uncachedTasks) = 0
        THEN Result(its, [kind |-> "tasks", tasks |-> cachedTasks], FALSE, <<>>)
        ELSE IF r.err THEN Result(its, r.out, TRUE, made)
        ELSE Result(CacheTasks(its, t, r.out.tasks, 1),
                    [kind |-> "tasks", tasks |-> r.out.tasks \o cachedTasks],
                    FALSE, made)

\* ecsClientCache.DescribeTasks; params is nil or carries the task ARNs
DescribeTasks(its, t, rem, params) ==
    LET asked == IF params = NilPtr THEN <<>> ELSE params.tasks
        IsCached(a) == Get(its, t, returnStale, KeyDescribeTasks(a))[2]
        IsUncached(a) == ~IsCached(a)
        hits == SelectSeq(asked, IsCached)
        cachedTasks == [i \in 1..Len(hits) |->
                          Get(its, t, returnStale, KeyDescribeTasks(hits[i]))[1].task]
        uncachedTasks == SelectSeq(asked, IsUncached)
        r == RemoteDescribeTasks(rem, uncachedTasks)
        made == <<RemoteCall("DescribeTasks", uncachedTasks)>>
    IN  IF Len(uncachedTasks) = 0
        THEN Result(its, [kind |-> "tasks", tasks |-> cachedTasks], FALSE, <<>>)
        ELSE IF r.err THEN Result(its, r.out, TRUE, made)
        ELSE Result(CacheTasks(its, t, r.out.tasks, 1),
                    [kind |-> "tasks", tasks |-> r.out.tasks \o cachedTasks],
                    FALSE, made)

\* ecsClientCache.ListTagsForResource
ListTagsForResource(its, t, rem, arn) ==
    LET cached == Get(its, t, returnStale, KeyListTags(arn))
        r == RemoteListTags(rem, arn)
        made == <<RemoteCall("ListTagsForResource", arn)>>
    IN  IF cached[2] THEN Result(its, cached[1], FALSE, <<>>)
        ELSE IF r.err
             THEN IF cached[1] # Nil THEN Result(its, cached[1], FALSE, made)
                  ELSE Result(its, r.out, TRUE, made)
        ELSE Result(Store(its, t, KeyListTags(arn), r.out, defaultExpiration),
                    r.out, FALSE, made)

(***************************************************************************)
(* The decorator under callers of its five operations.                     *)
(***************************************************************************)
\* what a caller asks DescribeTasks for: nil params, or some of the tasks
DescribeRequests ==
    {NilPtr} \cup
    {[kind |-> "params", tasks |-> q] :
        q \in {<<>>, <<Task1, Task2>>, <<Task3, Task2, Task1>>}}

\* a decorator call took place and left the cache as its result says
Called(r) ==
    /\ ncalls < MaxCalls
    /\ ncalls' = ncalls + 1
    /\ items' = r.items
    /\ UNCHANGED <<now, returnStale, janitorInterval, defaultExpiration, jpc, jNow,
                   jKey, tickerC, nextTick, closePc, setLog, sweepDone, remote>>
    /\ UNCHANGED <<engVars, fnVars>>

CallListClusters == Called(ListClusters(items, now, remote))

CallListServices(cluster) ==
    Called(ListServices(items, now, remote, cluster))

CallListTasks(service) ==
    Called(ListTasks(items, now, remote, service))

CallDescribeTasks(params) ==
    Called(DescribeTasks(items, now, remote, params))

CallListTagsForResource(arn) ==
    Called(ListTagsForResource(items, now, remote, arn))

\* the ECS API starts failing, recovers, or its contents move on to the next
\* version
RemoteOutage ==
    /\ remote.down = {}
    /\ remote' = [remote EXCEPT !.down = RemoteOps]
    /\ UNCHANGED <<cacheVars, ncalls, engVars, fnVars>>

RemoteRecovers ==
    /\ remote.down # {}
    /\ remote' = [remote EXCEPT !.down = {}]
    /\ UNCHANGED <<cacheVars, ncalls, engVars, fnVars>>

RemoteUpdate(ver) ==
    /\ ver = remote.ver + 1
    /\ remote' = [remote EXCEPT !.ver = ver]
    /\ UNCHANGED <<cacheVars, ncalls, engVars, fnVars>>

\* the decorator's callers are followed until the tasks cached with the
\* default expiration have gone stale
DecHorizon == DecoratorDefaultExpiration + 1

DecTick == TickTo(DecHorizon)

\* NewECSCacheClient: a cache with a 15 minute default expiration, a janitor
\* every 30 minutes and stale reads.  The process is either just started, or
\* has run for 80 minutes: the cluster list (or the nil a failed ListClusters
\* left) was cached 55 minutes ago, everything else has been swept, and the
\* janitor, which last ran 20 minutes ago, is due in 10.
DecInit ==
    /\ now = 0
    /\ \E old \in {Nil, NilPtr, [kind |-> "clusters", arns |-> WorldClusters(1)]} :
         /\ items = IF old = Nil THEN <<>>
                    ELSE [k \in {KeyListClusters} |-> [data |-> old, expires |-> 1]]
         /\ nextTick = IF old = Nil THEN DecoratorJanitorInterval ELSE 2
    /\ returnStale = TRUE
    /\ janitorInterval = DecoratorJanitorInterval
    /\ defaultExpiration = DecoratorDefaultExpiration
    /\ jpc = "select"
    /\ jNow = 0
    /\ jKey = <<>>
    /\ tickerC = FALSE
    /\ closePc = "idle"
    /\ setLog = <<>>
    /\ sweepDone = 0
    /\ remote = [ver |-> 1, down |-> {}]
    /\ ncalls = 0
    /\ EngineOff
    /\ NoTagsCall

DecNext ==
    \/ CallListClusters
    \/ \E c \in ClusterArns : CallListServices(c)
    \/ \E x \in ServiceArns : CallListTasks(x)
    \/ \E q \in DescribeRequests : CallDescribeTasks(q)
    \/ \E x \in ServiceArns : CallListTagsForResource(x)
    \/ RemoteOutage
    \/ RemoteRecovers
    \/ \E v \in DecVersions : RemoteUpdate(v)
    \/ DecTick
    \/ Janitor

SpecDecorator == DecInit /\ [][DecNext]_vars

(***************************************************************************)
(* The label normaliser and the label sets of prometheus/common/model.     *)
(***************************************************************************)
Lowers == <<"a", "b", "c", "d", "e", "f", "g", "h", "i", "j", "k", "l", "m",
            "n", "o", "p", "q", "r", "s", "t", "u", "v", "w", "x", "y", "z">>
Uppers == <<"A", "B", "C", "D", "E", "F", "G", "H", "I", "J", "K", "L", "M",
            "N", "O", "P", "Q", "R", "S", "T", "U", "V", "W", "X", "Y", "Z">>
Digits == <<"0", "1", "2", "3", "4", "5", "6", "7", "8", "9">>

IsLower(c) == \E i \in 1..Len(Lowers) : Lowers[i] = c
IsUpper(c) == \E i \in 1..Len(Uppers) : Uppers[i] = c
IsDigit(c) == \E i \in 1..Len(Digits) : Digits[i] = c

\* regexp "[^a-zA-Z0-9_]", ReplaceAllString(key, "_")
ReplaceInvalid(key) ==
    [i \in 1..Len(key) |->
        IF IsLower(key[i]) \/ IsUpper(key[i]) \/ IsDigit(key[i]) \/ key[i] = "_"
        THEN key[i] ELSE "_"]

\* regexp "([a-z])([A-Z])", ReplaceAllString(key, "${1}_${2}"): the matches
\* are taken from the left and do not overlap
RECURSIVE SplitCamel(_)
SplitCamel(key) ==
    IF Len(key) < 2 THEN key
    ELSE IF IsLower(key[1]) /\ IsUpper(key[2])
         THEN <<key[1], "_", key[2]>> \o SplitCamel(SubSeq(key, 3, Len(key)))
         ELSE <<key[1]>> \o SplitCamel(Tail(key))

\* a ToLower that leaves the key as it is
ToLowerKeeps(key) == key

\* strings.ToLower
ToLower(key) ==
    [i \in 1..Len(key) |->
        IF IsUpper(key[i])
        THEN Lowers[CHOOSE j \in 1..Len(Uppers) : Uppers[j] = key[i]]
        ELSE key[i]]

\* the label names; "__meta_" is model.MetaLabelPrefix and "__address__" is
\* model.AddressLabel.  The fixed parts are kept as single tokens.
LabelEcsPrefix == <<"__meta_", "ecs_">>
LabelEcsServiceTagPrefix == LabelEcsPrefix \o <<"service_tag_">>
LabelClusterName == LabelEcsPrefix \o <<"cluster_name">>
LabelServiceName == LabelEcsPrefix \o <<"service_name">>
AddressLabel == <<"__address__">>

\* labels[name] = value
WithLabel(labels, name, value) ==
    [n \in DOMAIN labels \cup {name} |-> IF n = name THEN value ELSE labels[n]]

\* tagsToLabelSet, from tag i on
RECURSIVE TagLabelsFrom(_, _, _)
TagLabelsFrom(tags, i, labels) ==
    IF i > Len(tags) THEN labels
    ELSE TagLabelsFrom(tags, i + 1,
            WithLabel(labels,
                      LabelEcsServiceTagPrefix \o ToLower(SplitCamel(ReplaceInvalid(tags[i].key))),
                      tags[i].value))

\* tagsToLabelSet
TagsToLabelSet(tags) == TagLabelsFrom(tags, 1, <<>>)

\* LabelSet.Merge: the labels of other win
Merge(ls, other) ==
    [n \in DOMAIN ls \cup DOMAIN other |-> IF n \in DOMAIN other THEN other[n] ELSE ls[n]]

(***************************************************************************)
(* tagsToLabelSet on its own: every list of at most MaxTags tags over the  *)
(* keys and values below, with the call as the only step.                  *)
(***************************************************************************)
\* the tag keys: the ones of Test_TagsToLabelSet in shape (a plain key, a key
\* with invalid characters), camel-case keys, and keys that differ only in
\* what the conversion rewrites
TagKeys == { <<"k", "1">>, <<"a", ".", "b">>, <<"a", "/", "b">>, <<"a", "_", "b">>,
             <<"a", "B">>, <<"A", "B">>, <<"a", "B", "c", "D">> }
TagValues == { <<"1">>, <<"2">> }

\* types.Tag with both pointers set
Tags == [key : TagKeys, value : TagValues]

RECURSIVE TagLists(_)
TagLists(n) ==
    IF n = 0 THEN { <<>> }
    ELSE TagLists(n - 1) \cup
         { Append(l, t) : l \in { m \in TagLists(n - 1) : Len(m) = n - 1 }, t \in Tags }

\* the keys of a resource's tags are distinct (they are case-sensitive)
DistinctKeys(l) == \A i, j \in 1..Len(l) : l[i].key = l[j].key => i = j

LabelsInit ==
    /\ now = 0
    /\ CacheInit(FALSE, 0, 0, {})
    /\ remote = [ver |-> 1, down |-> {}]
    /\ ncalls = 0
    /\ EngineOff
    /\ tagsIn \in { l \in TagLists(MaxTags) : DistinctKeys(l) }
    /\ labelsOut = [called |-> FALSE, labels |-> <<>>]

CallTagsToLabelSet ==
    /\ ~labelsOut.called
    /\ labelsOut' = [called |-> TRUE, labels |-> TagsToLabelSet(tagsIn)]
    /\ UNCHANGED <<cacheVars, decVars, engVars, tagsIn>>

LabelsNext == CallTagsToLabelSet

SpecLabels == LabelsInit /\ [][LabelsNext]_vars

(***************************************************************************)
(* discovery.refresh, through the decorator.                               *)
(***************************************************************************)
\* what refresh comes to: the cache it leaves, the groups, whether it
\* returned an error, the nil dereference it panicked on ("" for none), and
\* the decorator calls it made
Outcome(its, groups, err, panic, log) ==
    [items |-> its, tgs |-> groups, err |-> err, panic |-> panic, log |-> log]

\* a decorator call of refresh: whether the cache held an entry for its
\* key, whether the remote call was made and failed, what the call returned
Logged(op, arg, key, down, its, rem, r) ==
    [op |-> op, arg |-> arg, held |-> key \in DOMAIN its,
     failed |-> r.calls # <<>> /\ down \in rem.down, err |-> r.err]

\* the loop over tasks.Tasks, from task i on: a task without containers or
\* whose first container has no network interface is passed over; the first
\* interface's PrivateIpv4Address is dereferenced
RECURSIVE TargetsFrom(_, _, _)
TargetsFrom(tasks, i, targets) ==
    IF i > Len(tasks) THEN [targets |-> targets, panic |-> ""]
    ELSE IF Len(tasks[i].containers) = 0 \/ Len(tasks[i].containers[1].nis) = 0
         THEN TargetsFrom(tasks, i + 1, targets)
    ELSE IF tasks[i].containers[1].nis[1].ip = NilPtr
         THEN [targets |-> targets, panic |-> "address"]
    ELSE TargetsFrom(tasks, i + 1,
            Append(targets, [n \in {AddressLabel} |-> tasks[i].containers[1].nis[1].ip.s]))

\* the labels of a group, were the cluster and service labels not merged in
GroupLabelsTagsOnly(clusterName, serviceName, tags) == TagsToLabelSet(tags)

\* the labels of the group of a service
GroupLabels(clusterName, serviceName, tags) ==
    Merge(TagsToLabelSet(tags),
          [n \in {LabelClusterName, LabelServiceName} |->
              IF n = LabelClusterName THEN clusterName ELSE serviceName])

\* a group whose source is the cluster's name alone
GroupNamedByCluster(cluster, service, tasks, tags, targets) ==
    [source |-> LastSegment(cluster),
     labels |-> GroupLabels(LastSegment(cluster), LastSegment(service), tags),
     targets |-> targets,
     cluster |-> cluster,
     service |-> service,
     tasks |-> tasks]

\* &targetgroup.Group{Source, Labels, Targets}, with what it was built for:
\* the cluster, the service and the tasks described
Group(cluster, service, tasks, tags, targets) ==
    [source |-> LastSegment(cluster) \o <<"/">> \o LastSegment(service),
     labels |-> GroupLabels(LastSegment(cluster), LastSegment(service), tags),
     targets |-> targets,
     cluster |-> cluster,
     service |-> service,
     tasks |-> tasks]

\* the body of the loop over services.ServiceArns, for one service: nil
\* when it returns from refresh, else the group it appends
ServiceStep(its, t, rem, cluster, service) ==
    LET lt == ListTasks(its, t, rem, service)
        l1 == <<Logged("ListTasks", service, KeyListTasks(service),
                       KeyListTasks(service), its, rem, lt)>>
        dt == DescribeTasks(lt.items, t, rem, [kind |-> "params", tasks |-> lt.out.arns])
        l2 == Append(l1, Logged("DescribeTasks", lt.out.arns, OpDescribeTasks,
                                OpDescribeTasks, lt.items, rem, dt))
        tg == ListTagsForResource(dt.items, t, rem, service)
        l3 == Append(l2, Logged("ListTagsForResource", service, KeyListTags(service),
                                KeyListTags(service), dt.items, rem, tg))
        built == TargetsFrom(dt.out.tasks, 1, <<>>)
    IN  IF lt.err THEN [o |-> Outcome(lt.items, <<>>, TRUE, "", l1), group |-> Nil]
        ELSE IF dt.err THEN [o |-> Outcome(dt.items, <<>>, TRUE, "", l2), group |-> Nil]
        ELSE IF tg.err THEN [o |-> Outcome(tg.items, <<>>, TRUE, "", l3), group |-> Nil]
        ELSE IF built.panic # ""
             THEN [o |-> Outcome(tg.items, <<>>, FALSE, built.panic, l3), group |-> Nil]
        ELSE [o |-> Outcome(tg.items, <<>>, FALSE, "", l3),
              group |-> Group(cluster, service, dt.out.tasks, tg.out.tags, built.targets)]

\* the loop over services.ServiceArns, from service j on
RECURSIVE ServicesFrom(_, _, _, _, _, _, _, _)

\* after the body for service j came to step: return, or go on with j + 1
ServicesNext(t, rem, cluster, services, j, groups, log, step) ==
    IF step.group = Nil
    THEN Outcome(step.o.items, <<>>, step.o.err, step.o.panic, log \o step.o.log)
    ELSE ServicesFrom(step.o.items, t, rem, cluster, services, j + 1,
                      Append(groups, step.group), log \o step.o.log)

ServicesFrom(its, t, rem, cluster, services, j, groups, log) ==
    IF j > Len(services) THEN Outcome(its, groups, FALSE, "", log)
    ELSE ServicesNext(t, rem, cluster, services, j, groups, log,
                      ServiceStep(its, t, rem, cluster, services[j]))

\* the loop over clusters.ClusterArns, from cluster i on
RECURSIVE ClustersFrom(_, _, _, _, _, _, _)

\* after the loop over the services of cluster i came to inner
ClustersNext(t, rem, clusters, i, inner) ==
    IF inner.err \/ inner.panic # "" THEN inner
    ELSE ClustersFrom(inner.items, t, rem, clusters, i + 1, inner.tgs, inner.log)

\* the loop over clusters, were a cluster whose ListServices fails passed over
ClusterServicesSkips(t, rem, clusters, i, groups, log, ls) ==
    IF ls.err THEN ClustersFrom(ls.items, t, rem, clusters, i + 1, groups, log)
    ELSE ClustersNext(t, rem, clusters, i,
            ServicesFrom(ls.items, t, rem, clusters[i], ls.out.arns, 1, groups, log))

\* after ListServices for cluster i returned ls
ClusterServices(t, rem, clusters, i, groups, log, ls) ==
    IF ls.err THEN Outcome(ls.items, <<>>, TRUE, "", log)
    ELSE ClustersNext(t, rem, clusters, i,
            ServicesFrom(ls.items, t, rem, clusters[i], ls.out.arns, 1, groups, log))

ClustersFrom(its, t, rem, clusters, i, groups, log) ==
    IF i > Len(clusters) THEN Outcome(its, groups, FALSE, "", log)
    ELSE ClusterServices(t, rem, clusters, i, groups,
            Append(log, Logged("ListServices", clusters[i],
                               KeyListServices(clusters[i]),
                               KeyListServices(clusters[i]), its, rem,
                               ListServices(its, t, rem, clusters[i]))),
            ListServices(its, t, rem, clusters[i]))

\* discovery.refresh; reading clusters.ClusterArns of a nil output panics
Refresh(its, t, rem) ==
    LET lc == ListClusters(its, t, rem)
        l1 == <<Logged("ListClusters", <<>>, KeyListClusters, KeyListClusters, its, rem, lc)>>
    IN  IF lc.err THEN Outcome(lc.items, <<>>, TRUE, "", l1)
        ELSE IF lc.out = NilPtr THEN Outcome(lc.items, <<>>, FALSE, "clusters", l1)
        ELSE ClustersFrom(lc.items, t, rem, lc.out.arns, 1, <<>>, l1)

(***************************************************************************)
(* discovery.Run: refresh, send the batch or log the error, wait for the   *)
(* ticker or for ctx.Done().  The ticker's period (60 seconds by default)  *)
(* is shorter than the unit of time, so a tick can arrive at any moment.   *)
(* The horizon MaxEngTime lies before the janitor's first sweep, 30        *)
(* minutes after the start.                                                *)
(***************************************************************************)
\* the calls of a refresh whose remote call failed
Failed(log) == SelectSeq(log, LAMBDA c : c.failed)

\* what the remote calls of a refresh meet: refresh hands ctx to every SDK
\* call, and a call made with a cancelled ctx returns ctx's error
RemoteUnder(rem, done) == IF done THEN [rem EXCEPT !.down = RemoteOps] ELSE rem

\* where Run goes if the send of the batch were left out
AfterRefreshNoSend(r) ==
    IF r.panic # "" THEN "panicked" ELSE "select"

\* where Run goes when refresh is over: a panic in refresh ends the process,
\* an error is logged and Run waits, a batch goes to ch
AfterRefresh(r) ==
    IF r.panic # "" THEN "panicked"
    ELSE IF r.err THEN "select"
    ELSE "send"

\* the body of the loop: tgs, err := d.refresh(ctx), and the branch on err up
\* to the send.  (refresh is one step: ctx is cancelled before it or after
\* it.)
Iterate ==
    /\ refreshes < MaxRefreshes
    /\ LET r == Refresh(items, now, RemoteUnder(remote, cancelled))
       IN  /\ items' = r.items
           /\ tgs' = r.tgs
           /\ tick' = [log |-> Failed(r.log), err |-> r.err, panic |-> r.panic,
                       logged |-> r.err, sent |-> FALSE]
           /\ epc' = AfterRefresh(r)
    /\ refreshes' = refreshes + 1
    /\ UNCHANGED <<now, returnStale, janitorInterval, defaultExpiration, jpc, jNow,
                   jKey, tickerC, nextTick, closePc, setLog, sweepDone>>
    /\ UNCHANGED <<decVars, cancelled, draining, fnVars>>

\* one iteration of the loop as main runs it, entered at the start or, when
\* the ticker's tick arrives while Run waits, by case <-c: continue
EngRefresh ==
    /\ epc \in {"start", "select"}
    /\ Iterate
    /\ UNCHANGED eTickerC

\* ch <- tgs: the send completes when the consumer takes the batch
EngSend ==
    /\ epc = "send"
    /\ draining
    /\ tick' = [tick EXCEPT !.sent = TRUE]
    /\ epc' = "select"
    /\ UNCHANGED <<cacheVars, decVars, refreshes, cancelled, tgs, eTickerC, draining, fnVars>>

\* the remote side changes between two refreshes
Waiting == epc \in {"start", "select"}

\* one remote operation starts to fail
RemoteFails(op) ==
    /\ Waiting
    /\ op \notin remote.down
    /\ Cardinality(remote.down) < MaxDown
    /\ remote' = [remote EXCEPT !.down = remote.down \cup {op}]
    /\ UNCHANGED <<cacheVars, ncalls, engVars, fnVars>>

\* the failing operations work again
EngRemoteRecovers ==
    /\ Waiting
    /\ RemoteRecovers

\* the clusters, services and tasks change
EngRemoteUpdate(ver) ==
    /\ Waiting
    /\ RemoteUpdate(ver)

EngTick ==
    /\ Waiting
    /\ TickTo(MaxEngTime)

\* main: NewECSCacheClient, NewDiscovery, and Run started with
\* context.Background(), which is never cancelled, and with the channel the
\* adapter receives from
EngInit ==
    /\ now = 0
    /\ CacheInit(TRUE, DecoratorJanitorInterval, DecoratorDefaultExpiration, {})
    /\ remote = [ver |-> 1, down |-> {}]
    /\ ncalls = 0
    /\ epc = "start"
    /\ refreshes = 0
    /\ cancelled = FALSE
    /\ tgs = <<>>
    /\ tick = NoTick
    /\ eTickerC = FALSE
    /\ draining = TRUE
    /\ NoTagsCall

EngNext ==
    \/ EngRefresh
    \/ EngSend
    \/ \E op \in RemoteOps : RemoteFails(op)
    \/ EngRemoteRecovers
    \/ \E v \in Versions : EngRemoteUpdate(v)
    \/ EngTick

SpecEngine == EngInit /\ [][EngNext]_vars

(***************************************************************************)
(* discovery.Run under any caller: ctx may be cancelled at any moment, or  *)
(* before Run starts, the consumer of ch may stop receiving, and the       *)
(* ticker fires whether or not Run is at its select.  The clock and the    *)
(* clusters stay as they are.                                              *)
(***************************************************************************)
Running == epc \in {"start", "send", "select"}

\* the first pass of the loop: no test of ctx comes before it
RunFirst ==
    /\ epc = "start"
    /\ Iterate
    /\ UNCHANGED eTickerC

\* select, case <-c: continue
RunSelectTick ==
    /\ epc = "select"
    /\ eTickerC
    /\ eTickerC' = FALSE
    /\ Iterate

\* select, case <-ctx.Done(): return
RunSelectDone ==
    /\ epc = "select"
    /\ cancelled
    /\ epc' = "returned"
    /\ UNCHANGED <<cacheVars, decVars, refreshes, cancelled, tgs, tick, eTickerC,
                   draining, fnVars>>

\* the ticker's period has passed: a tick is put in ticker.C, which holds one
RunTickerFires ==
    /\ Running
    /\ ~eTickerC
    /\ eTickerC' = TRUE
    /\ UNCHANGED <<cacheVars, decVars, epc, refreshes, cancelled, tgs, tick,
                   draining, fnVars>>

\* the caller cancels ctx
Cancel ==
    /\ Running
    /\ ~cancelled
    /\ cancelled' = TRUE
    /\ UNCHANGED <<cacheVars, decVars, epc, refreshes, tgs, tick, eTickerC,
                   draining, fnVars>>

\* the consumer of ch stops receiving
ConsumerStops ==
    /\ Running
    /\ draining
    /\ draining' = FALSE
    /\ UNCHANGED <<cacheVars, decVars, epc, refreshes, cancelled, tgs, tick,
                   eTickerC, fnVars>>

RunInit ==
    /\ now = 0
    /\ CacheInit(TRUE, DecoratorJanitorInterval, DecoratorDefaultExpiration, {})
    /\ remote = [ver |-> 1, down |-> {}]
    /\ ncalls = 0
    /\ epc = "start"
    /\ refreshes = 0
    /\ cancelled \in BOOLEAN
    /\ tgs = <<>>
    /\ tick = NoTick
    /\ eTickerC = FALSE
    /\ draining = TRUE
    /\ NoTagsCall

RunNext ==
    \/ RunFirst
    \/ RunSelectTick
    \/ RunSelectDone
    \/ EngSend
    \/ RunTickerFires
    \/ Cancel
    \/ ConsumerStops
    \/ \E op \in RemoteOps : RemoteFails(op)
    \/ EngRemoteRecovers

SpecRun == RunInit /\ [][RunNext]_vars

(***************************************************************************)
(* The batches of Run for every answer of the API: each version of the     *)
(* account, with some operations failing from the start.                   *)
(***************************************************************************)
SourcesInit ==
    /\ now = 0
    /\ CacheInit(TRUE, DecoratorJanitorInterval, DecoratorDefaultExpiration, {})
    /\ \E v \in SourceVersions, d \in SUBSET RemoteOps :
          /\ Cardinality(d) <= MaxDown
          /\ remote = [ver |-> v, down |-> d]
    /\ ncalls = 0
    /\ epc = "start"
    /\ refreshes = 0
    /\ cancelled = FALSE
    /\ tgs = <<>>
    /\ tick = NoTick
    /\ eTickerC = FALSE
    /\ draining = TRUE
    /\ NoTagsCall

SourcesNext ==
    \/ EngRefresh
    \/ EngSend
    \/ EngRemoteRecovers

SpecSources == SourcesInit /\ [][SourcesNext]_vars

(***************************************************************************)
(* Claims about the cache.                                                 *)
(***************************************************************************)
\* what Get(key) returns when called in the current state
GetNow(key) == Get(items, now, returnStale, key)

\* C1: after Set(k, v, T) with T > 0, while no Set, Delete, Close or sweep
\* has touched k since: before T has elapsed Get(k) returns (v, true); after
\* T has elapsed it returns (v, false) with stale-serving enabled and
\* (absent, false) with stale-serving disabled.
C1_GetAfterSetWithTTL ==
    \A k \in Keys :
        LET l == setLog[k] IN
        (l.st = "live" /\ l.d > 0) =>
            /\ now < l.at + l.d => GetNow(k) = <<l.v, TRUE>>
            /\ now > l.at + l.d =>
                 GetNow(k) = IF returnStale THEN <<l.v, FALSE>> ELSE <<Nil, FALSE>>

\* C1, witnessed: one entry is read before its TTL has elapsed while another
\* has outlived its TTL on a cache without stale-serving
C1_Witness ==
    /\ ~returnStale
    /\ \E k1, k2 \in Keys :
        /\ setLog[k1].st = "live" /\ setLog[k1].d > 0
        /\ now < setLog[k1].at + setLog[k1].d
        /\ setLog[k2].st = "live" /\ setLog[k2].d > 0
        /\ now > setLog[k2].at + setLog[k2].d

\* C2: an entry stored with Set(k, v, ttl <= 0) (or SetDefault under a
\* default TTL <= 0) is immortal: as long as no later Set, Delete or Close
\* touches k, Get(k) returns (v, true), however much time passes and however
\* many sweeps run; in particular no sweep removes it.
C2_ImmortalEntry ==
    \A k \in Keys :
        LET l == setLog[k] IN
        /\ (l.st = "live" /\ l.d <= 0) => GetNow(k) = <<l.v, TRUE>>
        /\ l.st = "swept" => l.d > 0

HasEntry(key) == key \in DOMAIN items
HasFresh(key) == HasEntry(key) /\ ~(items[key].expires > 0 /\ now > items[key].expires)

\* what a list operation must do when it finds no fresh entry and the remote
\* call fails: hand out the cached value with no error, or else the error
FallsBack(key, r) ==
    (~HasFresh(key) /\ key \in remote.down) =>
        IF HasEntry(key) THEN r.out = items[key].data /\ ~r.err ELSE r.err

\* C4: for ListClusters, ListServices(cluster) and ListTagsForResource(arn):
\* with no fresh cache entry for the operation's key and the remote call
\* failing, the decorator returns the cached (expired, not yet swept) value
\* with no error if the cache holds an entry for the key, and the remote
\* call's error if it holds none.
C4_StaleOnError ==
    /\ FallsBack(KeyListClusters, ListClusters(items, now, remote))
    /\ \A c \in ClusterArns :
         FallsBack(KeyListServices(c), ListServices(items, now, remote, c))
    /\ \A x \in ServiceArns :
         FallsBack(KeyListTags(x), ListTagsForResource(items, now, remote, x))

\* C4, witnessed: the API is down, the cluster list and a service list are
\* cached but expired, the tags of a service are not cached
C4_Witness ==
    /\ remote.down = RemoteOps
    /\ HasEntry(KeyListClusters) /\ ~HasFresh(KeyListClusters)
    /\ items[KeyListClusters].data # NilPtr
    /\ \E c \in ClusterArns : HasEntry(KeyListServices(c)) /\ ~HasFresh(KeyListServices(c))
    /\ \E x \in ServiceArns : ~HasEntry(KeyListTags(x))
    /\ ncalls > 0

\* the ARNs of a request, and those of them without a fresh cache entry
Asked(params) == IF params = NilPtr THEN <<>> ELSE params.tasks
IsStaleOrMissing(arn) == ~HasFresh(KeyDescribeTasks(arn))
Misses(params) == SelectSeq(Asked(params), IsStaleOrMissing)
Range(q) == {q[i] : i \in 1..Len(q)}

\* C5: a DescribeTasks call makes no remote call if every requested ARN has
\* a fresh cache entry (or the request is empty); otherwise it makes exactly
\* one remote DescribeTasks call, whose task list holds exactly the requested
\* ARNs without a fresh cache entry and none of the cached ones.
C5_OneCallForMisses ==
    \A q \in DescribeRequests :
        LET r == DescribeTasks(items, now, remote, q) IN
        IF Misses(q) = <<>> THEN r.calls = <<>>
        ELSE /\ Len(r.calls) = 1
             /\ r.calls[1].op = "DescribeTasks"
             /\ r.calls[1].arg = Misses(q)

\* C5, witnessed: of three requested tasks two are cached and fresh and the
\* third is not cached
C5_Witness ==
    /\ HasFresh(KeyDescribeTasks(Task1))
    /\ HasFresh(KeyDescribeTasks(Task2))
    /\ ~HasEntry(KeyDescribeTasks(Task3))

\* C6: when a DescribeTasks call succeeds, the tasks returned are those the
\* remote call just returned together with those found fresh in the cache:
\* one task for every requested ARN, and each cached task returned is a task
\* fetched for that same ARN.
C6_UnionOfFetchedAndCached ==
    \A q \in DescribeRequests :
        LET r == DescribeTasks(items, now, remote, q) IN
        ~r.err =>
            /\ Len(r.out.tasks) = Len(Asked(q))
            /\ \A a \in Range(Asked(q)) :
                 \E i \in 1..Len(r.out.tasks) :
                    /\ r.out.tasks[i].arn = a
                    /\ IF HasFresh(KeyDescribeTasks(a))
                       THEN \E v \in Versions : r.out.tasks[i] = WorldTask(v, a)
                       ELSE r.out.tasks[i] = WorldTask(remote.ver, a)

\* C6, witnessed: two tasks were fetched in one batch and are fresh in the
\* cache, the ECS API has since readdressed them, and it is up
C6_Witness ==
    /\ HasFresh(KeyDescribeTasks(Task1))
    /\ HasFresh(KeyDescribeTasks(Task2))
    /\ ~HasFresh(KeyDescribeTasks(Task3))
    /\ remote = [ver |-> 2, down |-> {}]


(***************************************************************************)
(* Claims about the engine.                                                *)
(***************************************************************************)
\* a batch went, or is going, to the output channel in the current tick
Emitted == epc = "send" \/ tick.sent

\* the names of the clusters and services, written out
NameOf(arn) ==
    IF arn = ClusterX THEN <<"x">>
    ELSE IF arn = ClusterY THEN <<"y">>
    ELSE IF arn = ServiceA THEN <<"a">>
    ELSE <<"b">>

\* the ListServices call for a cluster failed in the current tick's refresh
\* and the cache held no entry for that cluster
ListServicesFailedHard(cluster) ==
    \E i \in 1..Len(tick.log) :
        /\ tick.log[i].op = "ListServices"
        /\ tick.log[i].arg = cluster
        /\ ~tick.log[i].held

\* C7: when the service-list call of a refresh fails for one cluster and the
\* cache holds no entry for it, the tick sends nothing on the output channel,
\* not even the groups of the clusters before it, and the error is logged.
C7_NothingSentOnListServicesFailure ==
    \A c \in ClusterArns :
        ListServicesFailedHard(c) =>
            /\ tick.err
            /\ tick.logged
            /\ ~Emitted
            /\ tgs = <<>>
            /\ epc \in {"select", "returned"}

\* the second cluster's service list failed with nothing cached, after the
\* first cluster was processed, and the engine waits for the next tick
C7_Witness ==
    /\ ListServicesFailedHard(ClusterY)
    /\ KeyListTags(ServiceA) \in DOMAIN items
    /\ epc = "select"

\* C8: the refresh that follows a refresh which returned an error is a normal
\* one: it ends with a batch to send or with a logged error, and the engine
\* goes on.
C8_RefreshAfterErrorIsNormal ==
    [][(epc = "select" /\ tick.err /\ refreshes' = refreshes + 1)
          => epc' \in {"send", "select"}]_vars

\* C9: every group of every emitted batch carries the cluster-name label with
\* the cluster's name and the service-name label with the service's name,
\* whatever the service's tags.
C9_ClusterAndServiceLabels ==
    Emitted =>
        \A i \in 1..Len(tgs) :
            /\ {LabelClusterName, LabelServiceName} \subseteq DOMAIN tgs[i].labels
            /\ tgs[i].labels[LabelClusterName] = NameOf(tgs[i].cluster)
            /\ tgs[i].labels[LabelServiceName] = NameOf(tgs[i].service)

\* a batch was received that has a group with tag labels and one without
C9_Witness ==
    /\ tick.sent
    /\ \E i \in 1..Len(tgs) : Cardinality(DOMAIN tgs[i].labels) > 2
    /\ \E i \in 1..Len(tgs) : Cardinality(DOMAIN tgs[i].labels) = 2

\* the private IPv4 addresses of a task's network interfaces
Addresses(task) ==
    {task.containers[c].nis[n].ip.s :
        <<c, n>> \in {x \in (1..Len(task.containers)) \X (1..2) :
                        /\ x[2] <= Len(task.containers[x[1]].nis)
                        /\ task.containers[x[1]].nis[x[2]].ip # NilPtr}}

HasAddress(task) == Addresses(task) # {}

\* C10: the targets of every emitted group are one entry, the private IPv4
\* address, per described task that has an interface with such an address,
\* and a task without one never makes the refresh fail.
C10_OneTargetPerAddressedTask ==
    /\ tick.panic # "address"
    /\ Emitted =>
         \A i \in 1..Len(tgs) :
            LET addressed == SelectSeq(tgs[i].tasks, HasAddress)
            IN  /\ Len(tgs[i].targets) = Len(addressed)
                /\ \A k \in 1..Len(addressed) :
                      tgs[i].targets[k][AddressLabel] \in Addresses(addressed[k])


(***************************************************************************)
(* C11.                                                                    *)
(***************************************************************************)
\* the label name the conversion is said to give: character by character,
\* an invalid character becomes "_", an upper-case letter its lower-case
\* letter, and "_" comes before an upper-case letter that follows a
\* lower-case one
ExpectedChar(c) ==
    IF IsUpper(c) THEN <<Lowers[CHOOSE j \in 1..Len(Uppers) : Uppers[j] = c]>>
    ELSE IF IsLower(c) \/ IsDigit(c) \/ c = "_" THEN <<c>>
    ELSE <<"_">>

RECURSIVE ExpectedFrom(_, _)
ExpectedFrom(key, i) ==
    IF i > Len(key) THEN <<>>
    ELSE (IF i > 1 /\ IsLower(key[i - 1]) /\ IsUpper(key[i]) THEN <<"_">> ELSE <<>>)
         \o ExpectedChar(key[i]) \o ExpectedFrom(key, i + 1)

ExpectedName(key) == LabelEcsServiceTagPrefix \o ExpectedFrom(key, 1)

\* the last tag of the list whose key converts to the label name
LastTagFor(tags, name) ==
    tags[CHOOSE i \in 1..Len(tags) :
            /\ ExpectedName(tags[i].key) = name
            /\ \A j \in (i + 1)..Len(tags) : ExpectedName(tags[j].key) # name]

\* C11 as stated: tagsToLabelSet maps every tag (key, value) to a label whose
\* name is the service-tag prefix followed by the converted key and whose
\* value is the tag's value.
C11_EveryTagKeepsItsValue ==
    labelsOut.called =>
        \A i \in 1..Len(tagsIn) :
            /\ ExpectedName(tagsIn[i].key) \in DOMAIN labelsOut.labels
            /\ labelsOut.labels[ExpectedName(tagsIn[i].key)] = tagsIn[i].value

\* C11 amended: the label set holds one label per converted tag key and no
\* other label, and the value of a label is the value of the last tag of the
\* list whose key converts to that name.
C11_LastTagOfANameWins ==
    labelsOut.called =>
        /\ DOMAIN labelsOut.labels = { ExpectedName(tagsIn[i].key) : i \in 1..Len(tagsIn) }
        /\ \A n \in DOMAIN labelsOut.labels :
               labelsOut.labels[n] = LastTagFor(tagsIn, n).value

\* two tags whose keys convert to the same name, with different values, and
\* the label carries the second one's
C11_Witness ==
    /\ labelsOut.called
    /\ Len(tagsIn) = 2
    /\ tagsIn[1].key = <<"a", "B">>
    /\ tagsIn[2].key = <<"a", ".", "b">>
    /\ tagsIn[1].value # tagsIn[2].value
    /\ labelsOut.labels[LabelEcsServiceTagPrefix \o <<"a", "_", "b">>] = tagsIn[2].value

(***************************************************************************)
(* C12.                                                                    *)
(***************************************************************************)
\* the janitor goroutine exists and has not returned: it is, or will again
\* be, at the select that receives from c.close
JanitorAlive == jpc \in {"select", "range", "delete"}

\* C12: Close always completes, with or without a janitor: a Close that is at
\* its send on the close channel has a janitor that will receive it.
C12_CloseCompletes == closePc = "send" => JanitorAlive

(***************************************************************************)
(* Claims about Run under cancellation and a consumer that stops.          *)
(***************************************************************************)
\* C13: once ctx is cancelled Run returns after at most the refresh in
\* progress, whether or not the consumer receives and whether or not the
\* ticker has fired: with ctx cancelled, Run is never at a send that nobody
\* will receive.
C13_CancelledRunIsNotStuck == cancelled => ~(epc = "send" /\ ~draining)

\* C18: a refresh begins only at the start of Run or when the tick before it
\* is over: its refresh has returned, and its batch was received by the
\* consumer or there was none because the refresh failed.  While the batch
\* waits at the send, no refresh begins.
C18_NoRefreshBeforeBatchReceived ==
    [][refreshes' # refreshes =>
          /\ refreshes' = refreshes + 1
          /\ epc \in {"start", "select"}
          /\ epc = "select" => tick.sent \/ tick.err]_vars

\* a second refresh was made, its batch waits at the send for a consumer that
\* receives no more, and the ticker has fired again
C18_Witness ==
    /\ refreshes = 2
    /\ epc = "send"
    /\ ~draining
    /\ eTickerC

\* C19: no refresh begins once ctx is cancelled, the first one of a Run
\* started with a cancelled ctx included, and also when the ticker's tick and
\* ctx.Done() are both ready.
C19_NoRefreshAfterCancel == [][cancelled => refreshes' = refreshes]_vars

(***************************************************************************)
(* C14.                                                                    *)
(***************************************************************************)
\* the remote DescribeTasks call failed in the current tick's refresh
DescribeTasksFailed ==
    \E i \in 1..Len(tick.log) : tick.log[i].op = "DescribeTasks"

\* C14: a failure of the DescribeTasks call is a soft failure: the refresh
\* does not return an error, and the tick still emits a batch.
C14_DescribeTasksFailureIsSoft ==
    DescribeTasksFailed => ~tick.err /\ Emitted

(***************************************************************************)
(* C15.                                                                    *)
(***************************************************************************)
\* C15: whatever Set, Get and Delete calls run during a sweep, the janitor
\* removes only entries that are expired at the moment it removes them: never
\* an immortal entry, never an entry that has not expired, also not one that
\* a Set stored under the same key while the sweep was in progress.
C15_SweeperRemovesOnlyExpired ==
    [][(jpc = "delete" /\ jpc' = "range" /\ jKey \in DOMAIN items)
          => Expired(items[jKey], now)]_vars

(***************************************************************************)
(* C16.                                                                    *)
(***************************************************************************)
\* C16: the decorator writes the cache only after a remote call that
\* succeeded: a decorator call made while the remote API fails leaves the
\* cache exactly as it was.
C16_FailedCallLeavesCache ==
    [][(ncalls' = ncalls + 1 /\ remote.down = RemoteOps) => items' = items]_vars

(***************************************************************************)
(* C17.                                                                    *)
(***************************************************************************)
\* C17: the value a successful decorator call cached answers every later call
\* for its key, without a remote call, until the key's TTL has elapsed: as
\* long as the entry has not expired it stays in the cache as it is.
C17_FreshEntryStays ==
    [][\A k \in DOMAIN items :
          (items[k].data # NilPtr /\ ~Expired(items[k], now'))
              => (k \in DOMAIN items' /\ items'[k] = items[k])]_vars

(***************************************************************************)
(* C20.                                                                    *)
(***************************************************************************)
\* the last path segment of the ARNs, written out
SegmentOf(arn) ==
    IF arn = ClusterX THEN <<"x">>
    ELSE IF arn = ClusterY THEN <<"y">>
    ELSE IF arn = ServiceA \/ arn = ServiceA2 THEN <<"a">>
    ELSE <<"b">>

\* C20 as stated: in every emitted batch each group's source is
\* "<clusterName>/<serviceName>", from the last path segments of the ARNs,
\* and no two groups of the batch have the same source, whatever distinct
\* ARNs the API returned.
C20_SourcesAreUnique ==
    Emitted =>
        /\ \A i \in 1..Len(tgs) :
              tgs[i].source = SegmentOf(tgs[i].cluster) \o <<"/">> \o SegmentOf(tgs[i].service)
        /\ \A i, j \in 1..Len(tgs) : tgs[i].source = tgs[j].source => i = j

\* C20 amended: each group's source is "<clusterName>/<serviceName>", and two
\* groups of a batch have the same source only if their cluster ARNs end in
\* the same segment and their service ARNs end in the same segment.
C20_SourcesUniqueUpToNames ==
    Emitted =>
        /\ \A i \in 1..Len(tgs) :
              tgs[i].source = SegmentOf(tgs[i].cluster) \o <<"/">> \o SegmentOf(tgs[i].service)
        /\ \A i, j \in 1..Len(tgs) :
              tgs[i].source = tgs[j].source =>
                  /\ SegmentOf(tgs[i].cluster) = SegmentOf(tgs[j].cluster)
                  /\ SegmentOf(tgs[i].service) = SegmentOf(tgs[j].service)

\* a batch was received with two groups of the same source for two service
\* ARNs, next to a group of another source
C20_Witness ==
    /\ tick.sent
    /\ \E i, j \in 1..Len(tgs) :
          /\ tgs[i].service # tgs[j].service
          /\ tgs[i].source = tgs[j].source
    /\ \E i, j \in 1..Len(tgs) : tgs[i].source # tgs[j].source

=============================================================================
